---- MODULE Spec2Model ----
(***************************************************************************)
(* A model of the self-belay crate: the Rope cursor of src/lib.rs (two raw *)
(* pointers, anchor and lead, into one exclusively borrowed structure) and *)
(* the binary-tree consumer of src/tests.rs (SimpleTree, its cursor-based  *)
(* prune_or_increment, the recursive prune_or_increment_safe, and the      *)
(* directions_from_bits path generator).                                   *)
(*                                                                         *)
(* A SimpleTree is the record [value, left, right]; an Option is the empty *)
(* sequence (None) or a one-element sequence (Some).  A raw pointer *mut T *)
(* into the tree is the access path from the root: the sequence of         *)
(* directions that leads to the node (boxes never move, so the path names  *)
(* the address for as long as the node is linked).                         *)
(***************************************************************************)
EXTENDS Integers, Sequences, FiniteSets, TLC

VARIABLES
    tree,            \* the structure the cursor was built over (the root SimpleTree)
    rope,            \* the Rope fields: [anchor |-> pointer, lead |-> pointer]
    alive,           \* FALSE once the Rope value has been moved into into_lead/into_anchor
    held,            \* references into the structure that the caller keeps in its variables
    ret,             \* what the last call returned to the caller, when it returned a value
    lastOp,          \* history: the last call made
    fellAfter,       \* history: when the last call was fall(), the call made before it
    pre,             \* history: the Rope fields before the last call
    calls,           \* history: "simul" = only advance_simul calls so far,
                     \*          "descend" = only advance_map/advance_simul, else "any"
    lastAdvance,     \* history: lead before the latest step that returned Advance, or the root
    it,              \* prune_or_increment: the directions not yet walked
    prune_direction, \* prune_or_increment: Option<Direction>
    advance,         \* prune_or_increment: loop flag of the second phase
    prune,           \* prune_or_increment: whether a prune is warranted
    pc,              \* prune_or_increment: position in the method
    orig,            \* the tree both implementations start from
    path,            \* the directions both implementations are given
    overflow_checks, \* whether the build panics on integer overflow (debug) or wraps
    safe_tree,       \* the copy prune_or_increment_safe runs on
    safe_pc,         \* position of the prune_or_increment_safe run
    bits,            \* directions_from_bits: the captured bits
    depth,           \* directions_from_bits: the captured depth
    current_depth,   \* directions_from_bits: the captured counter
    collected,       \* directions_from_bits: the items yielded so far
    bits_arg,        \* the bits argument directions_from_bits was called with
    exhausted        \* directions_from_bits: the iterator has returned None

ropeVars  == <<rope, alive, held, ret, lastOp, fellAfter, pre, calls, lastAdvance>>
pruneVars == <<it, prune_direction, advance, prune, pc, orig, path, overflow_checks,
               safe_tree, safe_pc>>
bitsVars  == <<bits, depth, current_depth, collected, bits_arg, exhausted>>
vars      == <<tree, ropeVars, pruneVars, bitsVars>>

----------------------------------------------------------------------------
(* Bounds of the model *)

LiveNodes == 4      \* nodes of the trees termination is checked on
LivePath == 2       \* length of the direction paths termination is checked with
MaxNodes == 5       \* nodes of the trees prune_or_increment is run on
MaxPath == 3        \* length of the direction paths
RopeNodes == 3      \* nodes of the trees the cursor interface is driven over
MaxHeld == 2        \* references a caller keeps outside the cursor
MaxBits == 15       \* largest bits argument of directions_from_bits
MaxBitDepth == 5    \* largest depth argument of directions_from_bits

U8Modulus == 256    \* value: u8

----------------------------------------------------------------------------
(* SimpleTree, Direction, Option *)

Left == "Left"
Right == "Right"
Direction == {Left, Right}

None == <<>>
Some(x) == <<x>>
is_some(o) == o # <<>>
is_none(o) == o = <<>>
unwrap(o) == o[1]

empty_tree(v) == [value |-> v, left |-> None, right |-> None]

\* the child link of a node in a direction: node.left or node.right
child(node, dir) == IF dir = Left THEN node.left ELSE node.right

\* node.left = c or node.right = c
set_child(node, dir, c) ==
    IF dir = Left THEN [node EXCEPT !.left = c] ELSE [node EXCEPT !.right = c]

\* &*p : the node a pointer denotes
RECURSIVE NodeAt(_, _)
NodeAt(t, p) ==
    IF p = <<>> THEN t ELSE NodeAt(unwrap(child(t, Head(p))), Tail(p))

\* *p = n : the structure after the node a pointer denotes is overwritten
RECURSIVE WriteAt(_, _, _)
WriteAt(t, p, n) ==
    IF p = <<>> THEN n
    ELSE set_child(t, Head(p), Some(WriteAt(unwrap(child(t, Head(p))), Tail(p), n)))

\* whether a pointer denotes a node that is linked into the structure
RECURSIVE Linked(_, _)
Linked(t, p) ==
    IF p = <<>> THEN TRUE
    ELSE IF is_none(child(t, Head(p))) THEN FALSE
    ELSE Linked(unwrap(child(t, Head(p))), Tail(p))

\* the pointers to all nodes of a tree
RECURSIVE Pointers(_)
Pointers(t) ==
    {<<>>}
    \cup (IF is_some(t.left) THEN {<<Left>> \o p : p \in Pointers(unwrap(t.left))} ELSE {})
    \cup (IF is_some(t.right) THEN {<<Right>> \o p : p \in Pointers(unwrap(t.right))} ELSE {})

IsPrefix(p, q) == Len(p) <= Len(q) /\ SubSeq(q, 1, Len(p)) = p

\* wrapping u8 addition
wrapping_add(v, n) == (v + n) % U8Modulus

----------------------------------------------------------------------------
(* The inputs: trees of a given size, node values base + stride * (heap index) *)

RECURSIVE TreesAt(_, _, _, _)
TreesAt(idx, n, base, stride) ==
    IF n = 0 THEN {None}
    ELSE UNION { { Some([value |-> (base + stride * idx) % U8Modulus, left |-> l, right |-> r]) :
                     l \in TreesAt(2 * idx, k, base, stride),
                     r \in TreesAt(2 * idx + 1, n - 1 - k, base, stride) } :
                 k \in 0..(n - 1) }

Trees(maxn, base, stride) ==
    UNION { { unwrap(o) : o \in TreesAt(1, n, base, stride) } : n \in 1..maxn }

RECURSIVE Paths(_)
Paths(n) ==
    IF n = 0 THEN {<<>>}
    ELSE Paths(n - 1) \cup { Append(p, d) : p \in { q \in Paths(n - 1) : Len(q) = n - 1 }, d \in Direction }

----------------------------------------------------------------------------
(* Rope: the methods as functions of the fields *)

\* Rope::new
new(root) == [anchor |-> root, lead |-> root]

\* Rope::advance_map: self.lead = f(&mut *self.lead)
advance_map(self, f_result) == [self EXCEPT !.lead = f_result]

\* Rope::advance_map_out: self.lead = f_result.0; f_result.1
advance_map_out(self, f_result) ==
    [rope |-> [self EXCEPT !.lead = f_result[1]], out |-> f_result[2]]

\* an advance_mut that does not store the slot back into lead
advance_mut_keeping_lead(self, slot, result) ==
    [rope |-> self, out |-> result]

\* Rope::advance_mut: the slot's final contents become lead; result is returned
advance_mut(self, slot, result) ==
    [rope |-> [self EXCEPT !.lead = slot], out |-> result]

\* Rope::anchor
anchor(self) == [self EXCEPT !.anchor = self.lead]

\* a fall that exchanges the two fields
fall_swapping(self) == [anchor |-> self.lead, lead |-> self.anchor]

\* Rope::fall
fall(self) == [self EXCEPT !.lead = self.anchor]

\* Simul::Advance / Simul::Hold
Advance(r) == [tag |-> "Advance", ref |-> r]
Hold(r) == [tag |-> "Hold", ref |-> r]

\* an advance_simul whose Advance arm stores the new lead in anchor
advance_simul_anchoring_new_lead(self, f_result) ==
    IF f_result.tag = "Hold"
    THEN [self EXCEPT !.lead = f_result.ref]
    ELSE [anchor |-> f_result.ref, lead |-> f_result.ref]

\* an advance_simul whose Advance arm stores the two pointers the wrong way round
advance_simul_fields_exchanged(self, f_result) ==
    IF f_result.tag = "Hold"
    THEN [self EXCEPT !.lead = f_result.ref]
    ELSE [anchor |-> f_result.ref, lead |-> self.lead]

\* an advance_simul whose Hold arm moves anchor as the Advance arm does
advance_simul_hold_anchoring(self, f_result) ==
    [anchor |-> self.lead, lead |-> f_result.ref]

\* Rope::advance_simul
advance_simul(self, f_result) ==
    LET old_lead == self.lead
    IN  IF f_result.tag = "Hold"
        THEN [self EXCEPT !.lead = f_result.ref]
        ELSE [anchor |-> old_lead, lead |-> f_result.ref]

\* Rope::get_anchor
get_anchor(self) == self.anchor

\* get_lead<'b, 'c: 'a + 'b>(&'b self) -> &'c T: a shared reference to the lead node
get_lead(self) == [node |-> self.lead, mutable |-> FALSE, src |-> "get_lead"]

\* get_lead_mut<'b, 'c: 'a + 'b>(&'b mut self) -> &'c mut T
get_lead_mut(self) == [node |-> self.lead, mutable |-> TRUE, src |-> "get_lead_mut"]

\* into_lead(self) -> &'a mut T
into_lead(self) == [node |-> self.lead, mutable |-> TRUE, src |-> "into_lead"]

\* an into_anchor that dereferences lead
into_anchor_from_lead(self) == [node |-> self.lead, mutable |-> TRUE, src |-> "into_anchor"]

\* into_anchor(self) -> &'a mut T
into_anchor(self) == [node |-> self.anchor, mutable |-> TRUE, src |-> "into_anchor"]

----------------------------------------------------------------------------
(* The methods as calls: their effect on the structure, the fields and the cursor *)

\* A caller's step function, as the descend family receives it: given exclusive
\* access to the node at p it may write the node's value (node.value = Mark), and it
\* returns the node itself or one of its children, together with a detached value
\* (the value it found).
StepMoves == {"stay", Left, Right}

Mark == 1

StepEnabled(t, p, move, write) ==
    /\ Linked(t, p)
    /\ move \in Direction => is_some(child(NodeAt(t, p), move))

Step(t, p, move, write) ==
    LET node == NodeAt(t, p)
        written == IF write THEN [node EXCEPT !.value = Mark] ELSE node
    IN  [tree |-> WriteAt(t, p, written),
         ref  |-> IF move = "stay" THEN p ELSE Append(p, move),
         out  |-> node.value]

\* rope.advance_map(f)
CallAdvanceMap(move, write) ==
    /\ alive
    /\ StepEnabled(tree, rope.lead, move, write)
    /\ LET s == Step(tree, rope.lead, move, write)
       IN  /\ tree' = s.tree
           /\ rope' = advance_map(rope, s.ref)
           /\ ret' = None
    /\ UNCHANGED alive

\* let b = rope.advance_map_out(f)
CallAdvanceMapOut(move, write) ==
    /\ alive
    /\ StepEnabled(tree, rope.lead, move, write)
    /\ LET s == Step(tree, rope.lead, move, write)
           r == advance_map_out(rope, <<s.ref, s.out>>)
       IN  /\ tree' = s.tree
           /\ rope' = r.rope
           /\ ret' = Some(r.out)
    /\ UNCHANGED alive

\* let b = rope.advance_mut(f)
CallAdvanceMut(move, write) ==
    /\ alive
    /\ StepEnabled(tree, rope.lead, move, write)
    /\ LET s == Step(tree, rope.lead, move, write)
           r == advance_mut(rope, s.ref, s.out)
       IN  /\ tree' = s.tree
           /\ rope' = r.rope
           /\ ret' = Some(r.out)
    /\ UNCHANGED alive

\* rope.anchor()
CallAnchor ==
    /\ alive
    /\ rope' = anchor(rope)
    /\ ret' = None
    /\ UNCHANGED <<tree, alive>>

\* a fall that also takes back what was written to the node it leaves
CallFallUndoing ==
    /\ alive
    /\ rope' = fall(rope)
    /\ ret' = None
    /\ tree' = WriteAt(tree, rope.lead, [NodeAt(tree, rope.lead) EXCEPT !.value = 0])
    /\ UNCHANGED alive

\* rope.fall()
CallFall ==
    /\ alive
    /\ rope' = fall(rope)
    /\ ret' = None
    /\ UNCHANGED <<tree, alive>>

\* rope.advance_simul(f)
CallAdvanceSimul(move, write, tag) ==
    /\ alive
    /\ StepEnabled(tree, rope.lead, move, write)
    /\ LET s == Step(tree, rope.lead, move, write)
       IN  /\ tree' = s.tree
           /\ rope' = advance_simul(rope, [tag |-> tag, ref |-> s.ref])
           /\ ret' = None
    /\ UNCHANGED alive

\* rope.get_anchor()
CallGetAnchor ==
    /\ alive
    /\ ret' = Some(get_anchor(rope))
    /\ UNCHANGED <<tree, rope, alive>>

\* rope.get_lead()
CallGetLead ==
    /\ alive
    /\ ret' = Some(get_lead(rope))
    /\ UNCHANGED <<tree, rope, alive>>

\* rope.get_lead_mut()
CallGetLeadMut ==
    /\ alive
    /\ ret' = Some(get_lead_mut(rope))
    /\ UNCHANGED <<tree, rope, alive>>

\* an into_lead that borrows the cursor instead of taking it
CallIntoLeadBorrowing ==
    /\ alive
    /\ alive' = TRUE
    /\ ret' = Some(into_lead(rope))
    /\ UNCHANGED <<tree, rope>>

\* rope.into_lead(): self is taken by value, the cursor cannot be named again
CallIntoLead ==
    /\ alive
    /\ alive' = FALSE
    /\ ret' = Some(into_lead(rope))
    /\ UNCHANGED <<tree, rope>>

\* rope.into_anchor(): self is taken by value
CallIntoAnchor ==
    /\ alive
    /\ alive' = FALSE
    /\ ret' = Some(into_anchor(rope))
    /\ UNCHANGED <<tree, rope>>

RopeOps == {"advance_map", "advance_map_out", "advance_mut", "anchor", "fall",
            "advance_simul_hold", "advance_simul_advance", "get_anchor", "get_lead",
            "get_lead_mut", "into_lead", "into_anchor"}

SimulOp(tag) == IF tag = "Advance" THEN "advance_simul_advance" ELSE "advance_simul_hold"

CallsAfter(op) ==
    IF op \in {"advance_simul_hold", "advance_simul_advance"} THEN calls
    ELSE IF op = "advance_map" THEN (IF calls = "any" THEN "any" ELSE "descend")
    ELSE "any"

IdlePrune ==
    /\ it = <<>> /\ prune_direction = None /\ advance = FALSE /\ prune = FALSE
    /\ pc = "idle" /\ orig = empty_tree(0) /\ path = <<>> /\ overflow_checks = FALSE
    /\ safe_tree = empty_tree(0) /\ safe_pc = "idle"

IdleBits ==
    /\ bits = 0 /\ depth = 0 /\ current_depth = 0 /\ collected = <<>>
    /\ bits_arg = 0 /\ exhausted = FALSE

----------------------------------------------------------------------------
(* Spec: the cursor driven by an arbitrary sequence of calls, with the history *)
(* of the calls made                                                           *)

Called(op) ==
    /\ lastOp' = op
    /\ fellAfter' = IF op = "fall" THEN lastOp ELSE "none"
    /\ pre' = rope
    /\ calls' = CallsAfter(op)
    /\ lastAdvance' = IF op = "advance_simul_advance" THEN rope.lead ELSE lastAdvance
    /\ UNCHANGED <<held, pruneVars, bitsVars>>

AdvanceMap ==
    \E move \in StepMoves, write \in BOOLEAN :
        CallAdvanceMap(move, write) /\ Called("advance_map")

AdvanceMapOut ==
    \E move \in StepMoves, write \in BOOLEAN :
        CallAdvanceMapOut(move, write) /\ Called("advance_map_out")

AdvanceMut ==
    \E move \in StepMoves, write \in BOOLEAN :
        CallAdvanceMut(move, write) /\ Called("advance_mut")

Anchor == CallAnchor /\ Called("anchor")

Fall == CallFall /\ Called("fall")

AdvanceSimul ==
    \E move \in StepMoves, write \in BOOLEAN, tag \in {"Advance", "Hold"} :
        CallAdvanceSimul(move, write, tag) /\ Called(SimulOp(tag))

GetAnchor == CallGetAnchor /\ Called("get_anchor")

GetLead == CallGetLead /\ Called("get_lead")

GetLeadMut == CallGetLeadMut /\ Called("get_lead_mut")

IntoLead == CallIntoLead /\ Called("into_lead")

IntoAnchor == CallIntoAnchor /\ Called("into_anchor")

\* let mut rope = Rope::new(&mut tree) over any small tree
Init ==
    /\ tree \in Trees(RopeNodes, 0, 0)
    /\ rope = new(<<>>)
    /\ alive = TRUE
    /\ held = {}
    /\ ret = None
    /\ lastOp = "new"
    /\ fellAfter = "none"
    /\ pre = new(<<>>)
    /\ calls = "simul"
    /\ lastAdvance = <<>>
    /\ IdlePrune
    /\ IdleBits

Next ==
    \/ AdvanceMap
    \/ AdvanceMapOut
    \/ AdvanceMut
    \/ Anchor
    \/ Fall
    \/ AdvanceSimul
    \/ GetAnchor
    \/ GetLead
    \/ GetLeadMut
    \/ IntoLead
    \/ IntoAnchor

Spec == Init /\ [][Next]_vars

----------------------------------------------------------------------------
(* BorrowSpec: the same calls, with the references the caller is left holding. *)
(* A reference stays in held for as long as its lifetime lets the caller keep  *)
(* it; a call is possible whenever the borrow checker accepts it.  No held     *)
(* reference borrows the cursor: the lifetimes 'c of get_lead/get_lead_mut and *)
(* 'a of advance_simul's argument are not bounded by the borrow of self.       *)

\* What a step function can leave in a variable of the caller.  advance_map,
\* advance_map_out and advance_mut take F: for<'any> FnOnce(&'any mut T) -> ...:
\* the closure must accept every lifetime, so no reborrow of its argument can be
\* assigned to a variable declared outside it.
LeaksHigherRanked(t, p, move) == {None}

\* advance_simul takes impl FnOnce(&'a mut T) -> Simul<'a, T>: the argument has the
\* cursor's own lifetime 'a, so a closure that returns one child may move a reborrow
\* of the other child (a disjoint field of the node) into a caller's variable of type
\* &'a mut T.  A closure that returns the node itself has given the whole node away.
LeaksNamedLifetime(t, p, move) ==
    {None} \cup
    { Some([node |-> Append(p, d), mutable |-> TRUE, src |-> "advance_simul"]) :
        d \in { e \in Direction : /\ move \in Direction
                                  /\ e # move
                                  /\ is_some(child(NodeAt(t, p), e)) } }

Keep(leak) == IF is_some(leak) THEN held \cup {unwrap(leak)} ELSE held

Kept(op, refs) ==
    /\ Cardinality(refs) <= MaxHeld
    /\ held' = refs
    /\ lastOp' = op
    /\ calls' = CallsAfter(op)
    /\ UNCHANGED <<fellAfter, pre, lastAdvance, pruneVars, bitsVars>>

BorrowAdvanceMap ==
    \E move \in StepMoves, write \in BOOLEAN :
    \E leak \in LeaksHigherRanked(tree, rope.lead, move) :
        CallAdvanceMap(move, write) /\ Kept("advance_map", Keep(leak))

BorrowAdvanceMapOut ==
    \E move \in StepMoves, write \in BOOLEAN :
    \E leak \in LeaksHigherRanked(tree, rope.lead, move) :
        CallAdvanceMapOut(move, write) /\ Kept("advance_map_out", Keep(leak))

BorrowAdvanceMut ==
    \E move \in StepMoves, write \in BOOLEAN :
    \E leak \in LeaksHigherRanked(tree, rope.lead, move) :
        CallAdvanceMut(move, write) /\ Kept("advance_mut", Keep(leak))

BorrowAdvanceSimul ==
    \E move \in StepMoves, write \in BOOLEAN, tag \in {"Advance", "Hold"} :
    \E leak \in IF alive /\ StepEnabled(tree, rope.lead, move, write)
                 THEN LeaksNamedLifetime(tree, rope.lead, move) ELSE {} :
        CallAdvanceSimul(move, write, tag) /\ Kept(SimulOp(tag), Keep(leak))

BorrowAnchor == CallAnchor /\ Kept("anchor", held)

BorrowFall == CallFall /\ Kept("fall", held)

\* let r = rope.get_lead();
KeepLead == CallGetLead /\ Kept("get_lead", held \cup {get_lead(rope)})

\* let r = rope.get_lead_mut();
KeepLeadMut == CallGetLeadMut /\ Kept("get_lead_mut", held \cup {get_lead_mut(rope)})

\* let r = rope.into_lead();
KeepIntoLead == CallIntoLead /\ Kept("into_lead", held \cup {into_lead(rope)})

\* let r = rope.into_anchor();
KeepIntoAnchor == CallIntoAnchor /\ Kept("into_anchor", held \cup {into_anchor(rope)})

\* the caller writes through a mutable reference it holds (*r = Mark)
WriteHeld ==
    \E r \in held :
        /\ r.mutable
        /\ Linked(tree, r.node)
        /\ tree' = WriteAt(tree, r.node, [NodeAt(tree, r.node) EXCEPT !.value = Mark])
        /\ lastOp' = "write_held"
        /\ UNCHANGED <<rope, alive, held, ret, fellAfter, pre, calls, lastAdvance,
                       pruneVars, bitsVars>>

\* the caller lets a reference it holds go out of scope
DropHeld ==
    \E r \in held :
        /\ held' = held \ {r}
        /\ lastOp' = "drop_held"
        /\ UNCHANGED <<tree, rope, alive, ret, fellAfter, pre, calls, lastAdvance,
                       pruneVars, bitsVars>>

BorrowInit == Init

BorrowNext ==
    \/ BorrowAdvanceMap
    \/ BorrowAdvanceMapOut
    \/ BorrowAdvanceMut
    \/ BorrowAdvanceSimul
    \/ BorrowAnchor
    \/ BorrowFall
    \/ KeepLead
    \/ KeepLeadMut
    \/ KeepIntoLead
    \/ KeepIntoAnchor
    \/ WriteHeld
    \/ DropHeld

BorrowSpec == BorrowInit /\ [][BorrowNext]_vars

----------------------------------------------------------------------------
(* SimpleTree::prune_or_increment and SimpleTree::prune_or_increment_safe *)

\* node.value += 1 on a u8: with overflow checks (the debug and test profiles) the
\* addition panics at 255 and nothing is stored; without them it wraps to 0
add_assign_one(v, checks) ==
    IF v + 1 >= U8Modulus
    THEN (IF checks THEN [panicked |-> TRUE, value |-> v]
                    ELSE [panicked |-> FALSE, value |-> wrapping_add(v, 1)])
    ELSE [panicked |-> FALSE, value |-> v + 1]

\* a walk closure that takes a node with either child for a potential prune point
walk_closure_either_child(t, p, dir) ==
    LET node == NodeAt(t, p)
        potential_prune_point == is_some(node.left) \/ is_some(node.right)
    IN  IF is_none(child(node, dir))
        THEN [panicked |-> TRUE, simul |-> Hold(p), prune_direction |-> None]
        ELSE LET c == unwrap(child(node, dir))
             IN  IF potential_prune_point /\ (is_none(c.left) \/ is_none(c.right))
                 THEN [panicked |-> FALSE, simul |-> Advance(Append(p, dir)),
                       prune_direction |-> Some(dir)]
                 ELSE [panicked |-> FALSE, simul |-> Hold(Append(p, dir)),
                       prune_direction |-> None]

\* a walk closure that stays where it is when the requested child is missing
walk_closure_skipping_missing(t, p, dir) ==
    LET node == NodeAt(t, p)
        potential_prune_point == is_some(node.left) /\ is_some(node.right)
    IN  IF is_none(child(node, dir))
        THEN [panicked |-> FALSE, simul |-> Hold(p), prune_direction |-> None]
        ELSE LET c == unwrap(child(node, dir))
             IN  IF potential_prune_point /\ (is_none(c.left) \/ is_none(c.right))
                 THEN [panicked |-> FALSE, simul |-> Advance(Append(p, dir)),
                       prune_direction |-> Some(dir)]
                 ELSE [panicked |-> FALSE, simul |-> Hold(Append(p, dir)),
                       prune_direction |-> None]

\* a walk closure that records the direction but leaves the checkpoint behind
walk_closure_not_catching_up(t, p, dir) ==
    LET node == NodeAt(t, p)
        potential_prune_point == is_some(node.left) /\ is_some(node.right)
    IN  IF is_none(child(node, dir))
        THEN [panicked |-> TRUE, simul |-> Hold(p), prune_direction |-> None]
        ELSE LET c == unwrap(child(node, dir))
             IN  IF potential_prune_point /\ (is_none(c.left) \/ is_none(c.right))
                 THEN [panicked |-> FALSE, simul |-> Hold(Append(p, dir)),
                       prune_direction |-> Some(dir)]
                 ELSE [panicked |-> FALSE, simul |-> Hold(Append(p, dir)),
                       prune_direction |-> None]

\* the closure of the walk phase, given the node at p: whether unwrap panicked, the
\* Simul it returns, and what it assigns to prune_direction (None: no assignment)
walk_closure(t, p, dir) ==
    LET node == NodeAt(t, p)
        potential_prune_point == is_some(node.left) /\ is_some(node.right)
    IN  IF is_none(child(node, dir))
        THEN [panicked |-> TRUE, simul |-> Hold(p), prune_direction |-> None]
        ELSE LET c == unwrap(child(node, dir))
             IN  IF potential_prune_point /\ (is_none(c.left) \/ is_none(c.right))
                 THEN [panicked |-> FALSE, simul |-> Advance(Append(p, dir)),
                       prune_direction |-> Some(dir)]
                 ELSE [panicked |-> FALSE, simul |-> Hold(Append(p, dir)),
                       prune_direction |-> None]

\* one iteration of: for dir in it { rope.advance_simul(|node| ...) }
WalkStep ==
    /\ pc = "walk"
    /\ it # <<>>
    /\ LET f == walk_closure(tree, rope.lead, Head(it))
       IN  IF f.panicked
           THEN /\ pc' = "panicked"
                /\ UNCHANGED <<rope, prune_direction>>
           ELSE /\ rope' = advance_simul(rope, f.simul)
                /\ prune_direction' =
                       IF is_some(f.prune_direction) THEN f.prune_direction
                       ELSE prune_direction
                /\ pc' = pc
    /\ it' = Tail(it)
    /\ UNCHANGED <<tree, alive, held, ret, lastOp, fellAfter, pre, calls, lastAdvance,
                   advance, prune, orig, path, overflow_checks, safe_tree, safe_pc,
                   bitsVars>>

\* the iterator is exhausted: let mut advance = true; let mut prune = true;
EndWalk ==
    /\ pc = "walk"
    /\ it = <<>>
    /\ advance' = TRUE
    /\ prune' = TRUE
    /\ pc' = "resolve"
    /\ UNCHANGED <<tree, ropeVars, it, prune_direction, orig, path, overflow_checks,
                   safe_tree, safe_pc, bitsVars>>

\* a first match whose (Some(_), Some(_)) arm is missing
match_children_without_both(node) ==
    IF is_none(node.left) /\ is_none(node.right) THEN "none"
    ELSE "other"

\* match (&node.left, &node.right): (None, None), (Some(_), Some(_)) or _
match_children(node) ==
    IF is_none(node.left) /\ is_none(node.right) THEN "none"
    ELSE IF is_some(node.left) /\ is_some(node.right) THEN "both"
    ELSE "other"

\* match (&mut node.left, &mut node.right): (Some(left), None), (None, Some(right))
\* or _, the arm that panics
match_only_child(node) ==
    IF is_some(node.left) /\ is_none(node.right) THEN Left
    ELSE IF is_none(node.left) /\ is_some(node.right) THEN Right
    ELSE "unreachable"

\* a closure of the second phase that returns the node it was given when the node
\* has one child
resolve_closure_staying(t, p, checks) ==
    LET node == NodeAt(t, p)
        sum == add_assign_one(node.value, checks)
        first == match_children(node)
    IN  IF first = "none"
        THEN [advance |-> Some(FALSE), prune |-> None, panicked |-> FALSE,
              unreachable |-> FALSE, tree |-> t, ref |-> p]
        ELSE IF first = "both"
        THEN [advance |-> Some(FALSE), prune |-> Some(FALSE), panicked |-> sum.panicked,
              unreachable |-> FALSE,
              tree |-> WriteAt(t, p, [node EXCEPT !.value = sum.value]), ref |-> p]
        ELSE [advance |-> None, prune |-> None, panicked |-> FALSE,
              unreachable |-> FALSE, tree |-> t, ref |-> p]

\* the closure of the second phase, given the node at p
resolve_closure(t, p, checks) ==
    LET node == NodeAt(t, p)
        sum == add_assign_one(node.value, checks)
        first == match_children(node)
        second == match_only_child(node)
    IN  IF first = "none"
        THEN [advance |-> Some(FALSE), prune |-> None, panicked |-> FALSE,
              unreachable |-> FALSE, tree |-> t, ref |-> p]
        ELSE IF first = "both"
        THEN [advance |-> Some(FALSE), prune |-> Some(FALSE), panicked |-> sum.panicked,
              unreachable |-> FALSE,
              tree |-> WriteAt(t, p, [node EXCEPT !.value = sum.value]), ref |-> p]
        ELSE IF second \in Direction
        THEN [advance |-> None, prune |-> None, panicked |-> FALSE,
              unreachable |-> FALSE, tree |-> t, ref |-> Append(p, second)]
        ELSE [advance |-> None, prune |-> None, panicked |-> TRUE,
              unreachable |-> TRUE, tree |-> t, ref |-> p]

\* one iteration of: while advance { rope.advance_map(|node| ...) }
ResolveStep ==
    /\ pc = "resolve"
    /\ advance
    /\ LET f == resolve_closure(tree, rope.lead, overflow_checks)
       IN  /\ advance' = IF is_some(f.advance) THEN unwrap(f.advance) ELSE advance
           /\ prune' = IF is_some(f.prune) THEN unwrap(f.prune) ELSE prune
           /\ tree' = f.tree
           /\ IF f.unreachable
              THEN pc' = "unreachable" /\ rope' = rope
              ELSE IF f.panicked
              THEN pc' = "panicked" /\ rope' = rope
              ELSE pc' = pc /\ rope' = advance_map(rope, f.ref)
    /\ UNCHANGED <<alive, held, ret, lastOp, fellAfter, pre, calls, lastAdvance,
                   it, prune_direction, orig, path, overflow_checks, safe_tree, safe_pc,
                   bitsVars>>

\* match (prune, prune_direction) { ... }: the cursor is consumed by into_anchor, or
\* dropped at the end of the method
Commit ==
    /\ pc = "resolve"
    /\ ~advance
    /\ IF prune /\ is_some(prune_direction)
       THEN LET r == into_anchor(rope).node
            IN  tree' = WriteAt(tree, r, set_child(NodeAt(tree, r), unwrap(prune_direction), None))
       ELSE tree' = tree
    /\ alive' = FALSE
    /\ pc' = "done"
    /\ UNCHANGED <<rope, held, ret, lastOp, fellAfter, pre, calls, lastAdvance,
                   it, prune_direction, advance, prune, orig, path, overflow_checks,
                   safe_tree, safe_pc, bitsVars>>

\* SimpleTree::needs_prune: the tree it leaves, what it returns, whether it panicked
RECURSIVE needs_prune(_, _)
needs_prune(self, checks) ==
    LET first == match_children(self)
        second == match_only_child(self)
    IN  IF first = "none"
        THEN [tree |-> self, result |-> TRUE, panicked |-> FALSE, unreachable |-> FALSE]
        ELSE IF first = "both"
        THEN LET sum == add_assign_one(self.value, checks)
             IN  [tree |-> [self EXCEPT !.value = sum.value], result |-> FALSE,
                  panicked |-> sum.panicked, unreachable |-> FALSE]
        ELSE IF second \in Direction
        THEN LET r == needs_prune(unwrap(child(self, second)), checks)
             IN  [tree |-> set_child(self, second, Some(r.tree)), result |-> r.result,
                  panicked |-> r.panicked, unreachable |-> r.unreachable]
        ELSE [tree |-> self, result |-> FALSE, panicked |-> TRUE, unreachable |-> TRUE]

\* SimpleTree::prune_or_increment_safe_impl
RECURSIVE prune_or_increment_safe_impl(_, _, _)
prune_or_increment_safe_impl(self, dirs, checks) ==
    IF dirs = <<>> THEN needs_prune(self, checks)
    ELSE LET dir == Head(dirs)
         IN  IF is_none(child(self, dir))
             THEN [tree |-> self, result |-> FALSE, panicked |-> TRUE,
                   unreachable |-> FALSE]
             ELSE LET r == prune_or_increment_safe_impl(unwrap(child(self, dir)), Tail(dirs), checks)
                      after == set_child(self, dir, Some(r.tree))
                  IN  IF r.panicked
                      THEN [tree |-> after, result |-> FALSE, panicked |-> TRUE,
                            unreachable |-> r.unreachable]
                      ELSE IF r.result
                      THEN (IF is_some(after.left) /\ is_some(after.right)
                            THEN [tree |-> set_child(after, dir, None), result |-> FALSE,
                                  panicked |-> FALSE, unreachable |-> FALSE]
                            ELSE [tree |-> after, result |-> TRUE, panicked |-> FALSE,
                                  unreachable |-> FALSE])
                      ELSE [tree |-> after, result |-> FALSE, panicked |-> FALSE,
                            unreachable |-> FALSE]

\* SimpleTree::prune_or_increment_safe, run on the copy once the cursor run has ended
PruneOrIncrementSafe ==
    /\ pc \in {"done", "panicked", "unreachable"}
    /\ safe_pc = "start"
    /\ LET r == prune_or_increment_safe_impl(safe_tree, path, overflow_checks)
       IN  /\ safe_tree' = r.tree
           /\ safe_pc' = IF r.unreachable THEN "unreachable"
                         ELSE IF r.panicked THEN "panicked" ELSE "done"
    /\ UNCHANGED <<tree, ropeVars, it, prune_direction, advance, prune, pc, orig, path,
                   overflow_checks, bitsVars>>

\* the node values the trees are built with: small ones, and ones one step from 255
Bases == {0, 252, 253, 254}

\* two equal copies of a tree, a path, and let mut rope = Rope::new(self);
\* let mut prune_direction = None;
PruneInit ==
    /\ \E base \in Bases : orig \in Trees(MaxNodes, base, 1)
    /\ path \in Paths(MaxPath)
    /\ overflow_checks \in BOOLEAN
    /\ tree = orig
    /\ safe_tree = orig
    /\ rope = new(<<>>)
    /\ alive = TRUE
    /\ held = {}
    /\ ret = None
    /\ lastOp = "new"
    /\ fellAfter = "none"
    /\ pre = new(<<>>)
    /\ calls = "simul"
    /\ lastAdvance = <<>>
    /\ it = path
    /\ prune_direction = None
    /\ advance = FALSE
    /\ prune = FALSE
    /\ pc = "walk"
    /\ safe_pc = "start"
    /\ IdleBits

PruneNext ==
    \/ WalkStep
    \/ EndWalk
    \/ ResolveStep
    \/ Commit
    \/ PruneOrIncrementSafe

PruneSpec == PruneInit /\ [][PruneNext]_vars

\* the runs whose termination is checked: the smaller trees and shorter paths
PruneLiveInit ==
    /\ PruneInit
    /\ Cardinality(Pointers(orig)) <= LiveNodes
    /\ Len(path) <= LivePath

\* the method is sequential code: whenever it has a next statement, it runs it
PruneLiveSpec == PruneLiveInit /\ [][PruneNext]_vars /\ WF_vars(PruneNext)

----------------------------------------------------------------------------
(* directions_from_bits *)

\* a mapping with the two directions exchanged
direction_of_bit_exchanged(b) == IF b % 2 = 0 THEN Right ELSE Left

\* if bits % 2 == 0 { Left } else { Right }
direction_of_bit(b) == IF b % 2 = 0 THEN Left ELSE Right

\* one call of the from_fn closure by collect()
NextItem ==
    /\ ~exhausted
    /\ IF current_depth >= depth
       THEN /\ exhausted' = TRUE
            /\ UNCHANGED <<bits, current_depth, collected>>
       ELSE /\ current_depth' = current_depth + 1
            /\ collected' = Append(collected, direction_of_bit(bits))
            /\ bits' = bits \div 2
            /\ UNCHANGED exhausted
    /\ UNCHANGED <<tree, ropeVars, pruneVars, depth, bits_arg>>

\* directions_from_bits(bits, depth): let mut current_depth = 0u8;
BitsInit ==
    /\ bits_arg \in 0..MaxBits
    /\ depth \in 0..MaxBitDepth
    /\ bits = bits_arg
    /\ current_depth = 0
    /\ collected = <<>>
    /\ exhausted = FALSE
    /\ tree = empty_tree(0)
    /\ rope = new(<<>>)
    /\ alive = FALSE /\ held = {} /\ ret = None /\ lastOp = "none" /\ fellAfter = "none"
    /\ pre = new(<<>>) /\ calls = "any" /\ lastAdvance = <<>>
    /\ IdlePrune

BitsNext == NextItem

BitsSpec == BitsInit /\ [][BitsNext]_vars

----------------------------------------------------------------------------
(* Claims about the cursor, under Spec *)

\* C1: after a sequence of advance_simul calls only, on a cursor built by
\* Rope::new(root), anchor is the lead held immediately before the most recent
\* step that returned Advance, and the root when no step returned Advance.
C1_AnchorIsLeadBeforeLastAdvance ==
    calls = "simul" => rope.anchor = lastAdvance

\* a Hold step taken after an Advance step that left a node below the root
C1_Witness ==
    /\ calls = "simul"
    /\ lastOp = "advance_simul_hold"
    /\ lastAdvance # <<>>
    /\ rope.lead # pre.lead

\* C2: anchor() immediately followed by fall() leaves lead where it was before the
\* anchor() call, and a fall() that immediately follows a fall() changes neither field.
C2_CheckpointRewind ==
    [][ /\ (lastOp = "anchor" /\ lastOp' = "fall") => rope'.lead = pre.lead
        /\ (lastOp = "fall" /\ lastOp' = "fall") => rope' = rope ]_vars

\* fall() right after an anchor() that moved the checkpoint below the root
C2_Witness ==
    /\ lastOp = "fall"
    /\ fellAfter = "anchor"
    /\ rope.anchor # <<>>
    /\ rope.lead = rope.anchor

\* C6: the cursor is alive or consumed; every call but into_lead and into_anchor
\* leaves it alive, those two consume it, and no call is made on a consumed cursor
\* (so into_anchor never follows into_lead).
C6_Lifecycle ==
    [][ /\ alive
        /\ lastOp' \in RopeOps
        /\ alive' = (lastOp' \notin {"into_lead", "into_anchor"}) ]_vars

\* a cursor consumed by into_lead after it had walked away from its anchor
C6_Witness ==
    /\ ~alive
    /\ lastOp = "into_lead"
    /\ rope.lead # rope.anchor

\* C10: anchor changes only in anchor() or in an advance_simul step that returned
\* Advance; every other call, a Hold step included, leaves anchor as it was.
C10_AnchorFrame ==
    [][ rope'.anchor # rope.anchor => lastOp' \in {"anchor", "advance_simul_advance"} ]_vars

\* a Hold step that moved lead while anchor, elsewhere, stayed
C10_Witness ==
    /\ lastOp = "advance_simul_hold"
    /\ rope.lead # pre.lead
    /\ pre.anchor # pre.lead
    /\ rope.anchor = pre.anchor

\* C11: fall() only repositions the cursor: lead becomes anchor, anchor stays, and
\* the structure is left exactly as the steps before it wrote it.
C11_FallKeepsTheStructure ==
    [][ lastOp' = "fall" =>
            /\ tree' = tree
            /\ rope'.lead = rope.anchor
            /\ rope'.anchor = rope.anchor ]_vars

\* a fall() that moved lead back from a node a step had written to
C11_Witness ==
    /\ lastOp = "fall"
    /\ pre.lead # rope.lead
    /\ NodeAt(tree, pre.lead).value = Mark

\* C12: driven by step functions that return the node they were given or a node
\* below it, through any interleaving of advance_map, advance_map_out, advance_mut,
\* advance_simul, anchor() and fall(), lead denotes a node of the structure that
\* lies in the subtree rooted at anchor (possibly anchor itself).
C12_LeadInsideAnchor ==
    /\ Linked(tree, rope.anchor)
    /\ Linked(tree, rope.lead)
    /\ IsPrefix(rope.anchor, rope.lead)

\* a descend step took lead below an anchor that is not the root
C12_Witness ==
    /\ lastOp \in {"advance_map", "advance_map_out", "advance_mut"}
    /\ rope.anchor # <<>>
    /\ rope.lead # pre.lead
    /\ Len(rope.lead) > Len(rope.anchor)

\* C14: for the same step function in the same cursor state, advance_map,
\* advance_map_out and advance_mut make lead the node the step returned, leave
\* anchor alone and leave the structure as the step wrote it; advance_map_out and
\* advance_mut return the step's auxiliary value unchanged.
C14_DescendEncodingsAgree ==
    [][ \A move \in StepMoves, write \in BOOLEAN :
            LET s == Step(tree, rope.lead, move, write)
            IN  /\ (lastOp' = "advance_map" /\ CallAdvanceMap(move, write)) =>
                       /\ rope' = [anchor |-> rope.anchor, lead |-> s.ref]
                       /\ tree' = s.tree
                /\ (lastOp' = "advance_map_out" /\ CallAdvanceMapOut(move, write)) =>
                       /\ rope' = advance_map(rope, s.ref)
                       /\ tree' = s.tree
                       /\ ret' = Some(s.out)
                /\ (lastOp' = "advance_mut" /\ CallAdvanceMut(move, write)) =>
                       /\ rope' = advance_map(rope, s.ref)
                       /\ tree' = s.tree
                       /\ ret' = Some(s.out) ]_vars

\* advance_mut moved lead to a child, wrote the node it left and returned the value
\* the step found there
C14_Witness ==
    /\ lastOp = "advance_mut"
    /\ rope.lead # pre.lead
    /\ rope.anchor = pre.anchor
    /\ NodeAt(tree, pre.lead).value = Mark
    /\ ret = Some(0)

----------------------------------------------------------------------------
(* Claims about the references a caller can hold, under BorrowSpec *)

\* C4: after any sequence of advance_map and advance_simul calls no reference into
\* the structure is left in a variable of the caller: a step function cannot keep a
\* reference (to a sibling it did not return, say) alive after the call returns.
C4_NoReferenceEscapesAStep ==
    calls \in {"simul", "descend"} => held = {}

\* C5: while the cursor is alive, a shared reference from get_lead and a mutable
\* reference from get_lead_mut to the same lead node are never live together.
C5_NoSharedWithMutableLead ==
    alive =>
        ~ \E r1 \in held, r2 \in held :
            /\ r1.src = "get_lead"
            /\ r2.src = "get_lead_mut"
            /\ r1.node = r2.node

----------------------------------------------------------------------------
(* Claims about prune_or_increment, under PruneSpec *)

HasTwo(node) == is_some(node.left) /\ is_some(node.right)
IsLeaf(node) == is_none(node.left) /\ is_none(node.right)

\* C3: on equal copies of any tree and with the same path, prune_or_increment and
\* prune_or_increment_safe leave identical trees.
C3_SameTreeAsSafe ==
    (pc \in {"done", "panicked"} /\ safe_pc \in {"done", "panicked"}) => tree = safe_tree

\* both ran to the end and a chain below a node under the root was pruned
C3_Witness ==
    /\ pc = "done"
    /\ safe_pc = "done"
    /\ tree # orig
    /\ prune
    /\ rope.anchor # <<>>
    /\ Len(rope.lead) > Len(rope.anchor) + 1

\* C7: when every requested child exists, the second phase stops at a node without
\* children and the walk recorded a prune direction, the resulting tree is the
\* original one less the subtree under the final anchor node in that direction:
\* every other node is still linked where it was, with the value it had.
C7_PruneIsTheOnlyChange ==
    (pc = "done" /\ IsLeaf(NodeAt(orig, rope.lead)) /\ is_some(prune_direction)) =>
        LET cut == Append(rope.anchor, unwrap(prune_direction))
        IN  /\ cut \in Pointers(orig)
            /\ Pointers(tree) = { p \in Pointers(orig) : ~IsPrefix(cut, p) }
            /\ \A p \in Pointers(tree) : NodeAt(tree, p).value = NodeAt(orig, p).value

\* a chain of more than one node was cut off below an anchor that is not the root,
\* and the tree keeps nodes beside the anchor's path
C7_Witness ==
    /\ pc = "done"
    /\ IsLeaf(NodeAt(orig, rope.lead))
    /\ is_some(prune_direction)
    /\ rope.anchor # <<>>
    /\ Len(rope.lead) > Len(rope.anchor) + 1
    /\ Len(path) < Len(rope.lead)

\* C8: when every requested child exists and the second phase stops at a node with
\* two children, the shape is unchanged, that node's value is one more than it was,
\* and no other value changes.
C8_IncrementByOne ==
    (pc = "done" /\ HasTwo(NodeAt(orig, rope.lead))) =>
        LET node == NodeAt(orig, rope.lead)
        IN  tree = WriteAt(orig, rope.lead, [node EXCEPT !.value = node.value + 1])

\* the nodes of t on the way down p, from depth lo to depth hi
NodesAlong(p, lo, hi) == { SubSeq(p, 1, k) : k \in lo..hi }

\* C13: whenever the commit prunes, the final anchor is the deepest node with two
\* children on the walked path, the recorded direction is the one the path took out
\* of it, and every node from that child down to the final lead, a leaf, has at
\* most one child: the removed subtree is a single-child chain ending in a leaf.
C13_PruneCutsAChain ==
    (pc = "done" /\ prune /\ is_some(prune_direction)) =>
        LET a == rope.anchor
            l == rope.lead
            d == unwrap(prune_direction)
            chain == NodesAlong(l, Len(a) + 1, Len(l))
        IN  /\ Len(a) < Len(path)
            /\ IsPrefix(a, path)
            /\ IsPrefix(path, l)
            /\ path[Len(a) + 1] = d
            /\ HasTwo(NodeAt(orig, a))
            /\ \A q \in NodesAlong(path, Len(a) + 1, Len(path)) : ~HasTwo(NodeAt(orig, q))
            /\ \A q \in chain : ~HasTwo(NodeAt(orig, q))
            /\ IsLeaf(NodeAt(orig, l))
            /\ { q \in Pointers(orig) : IsPrefix(Append(a, d), q) } = chain
            /\ Pointers(orig) \ Pointers(tree) = chain

\* the commit pruned below an anchor under the root after the path had passed an
\* earlier node with two children
C13_Witness ==
    /\ pc = "done"
    /\ prune
    /\ is_some(prune_direction)
    /\ HasTwo(orig)
    /\ rope.anchor # <<>>
    /\ tree # orig

\* C15: the second phase never reaches its impossible-state branch: every node it
\* inspects has no children, two children or exactly one child, so neither the
\* panic arm of the second match in prune_or_increment nor the unreachable arm of
\* needs_prune is executed.
C15_ImpossibleArmNeverRuns ==
    /\ pc # "unreachable"
    /\ safe_pc # "unreachable"
    /\ (pc = "resolve" /\ advance) =>
           LET node == NodeAt(tree, rope.lead)
           IN  /\ match_children(node) \in {"none", "both", "other"}
               /\ match_children(node) = "other" <=> match_only_child(node) \in Direction

\* both runs ended after the second phase had gone through nodes with one child
C15_Witness ==
    /\ pc = "done"
    /\ safe_pc = "done"
    /\ Len(rope.lead) > Len(path) + 1

\* the number of links on the longest way down from node
RECURSIVE Height(_)
Height(node) ==
    LET l == IF is_some(node.left) THEN 1 + Height(unwrap(node.left)) ELSE 0
        r == IF is_some(node.right) THEN 1 + Height(unwrap(node.right)) ELSE 0
    IN  IF l > r THEN l ELSE r

\* C16: on every finite tree the while loop of the second phase terminates: each
\* iteration that does not stop moves lead to a child of the node it inspected, so
\* the loop ends, at a leaf or at a node with two children, after at most as many
\* iterations as the height of the tree below the walk's final lead.
C16_ResolveTerminates ==
    /\ (pc = "resolve") ~> (pc \in {"done", "panicked"})
    /\ [][ (pc = "resolve" /\ advance /\ pc' = "resolve" /\ advance') =>
               \E d \in Direction :
                   /\ is_some(child(NodeAt(tree, rope.lead), d))
                   /\ rope'.lead = Append(rope.lead, d) ]_vars
    /\ [] ( pc \in {"resolve", "done"} =>
               /\ IsPrefix(path, rope.lead)
               /\ Len(rope.lead) - Len(path) <= Height(NodeAt(orig, path))
               /\ ~advance =>
                      \/ IsLeaf(NodeAt(orig, rope.lead))
                      \/ HasTwo(NodeAt(orig, rope.lead)) )

\* the loop has ended after at least two iterations that moved lead down
C16_Witness ==
    /\ pc = "done"
    /\ ~advance
    /\ Len(rope.lead) >= Len(path) + 2

\* t with the value of the node at p one higher
Incremented(t, p) ==
    WriteAt(t, p, [NodeAt(t, p) EXCEPT !.value = NodeAt(t, p).value + 1])

\* t with the child link of the node at p in direction d emptied
Emptied(t, p, d) == WriteAt(t, p, set_child(NodeAt(t, p), d, None))

\* C17: one run of prune_or_increment changes the tree at most once, by exactly one
\* of: one node's value one higher, one child link of one node emptied, or nothing;
\* never both, and the walk phase changes nothing.
C17_AtMostOneMutation ==
    /\ pc = "walk" => tree = orig
    /\ \/ tree = orig
       \/ \E p \in Pointers(orig) : tree = Incremented(orig, p)
       \/ \E p \in Pointers(orig), d \in Direction :
              /\ is_some(child(NodeAt(orig, p), d))
              /\ tree = Emptied(orig, p, d)

\* C18: if the path requests a child that does not exist, prune_or_increment aborts
\* during the walk phase with the tree as it was before the call: no value has been
\* incremented and no child removed.
C18_MissingChildAbortsUnchanged ==
    ~Linked(orig, path) =>
        /\ pc \in {"walk", "panicked"}
        /\ tree = orig
        /\ pc = "walk" => it # <<>>
        /\ pc = "panicked" =>
               /\ Len(rope.lead) < Len(path)
               /\ IsPrefix(rope.lead, path)
               /\ is_none(child(NodeAt(orig, rope.lead), path[Len(rope.lead) + 1]))

\* the walk aborted at a missing child after it had taken lead below the root on a
\* tree that had a value to increment
C18_Witness ==
    /\ pc = "panicked"
    /\ ~Linked(orig, path)
    /\ rope.lead # <<>>
    /\ HasTwo(orig)

----------------------------------------------------------------------------
(* Claims about directions_from_bits, under BitsSpec *)

Pow2(n) == 2 ^ n

\* C9: directions_from_bits(bits, depth) yields exactly depth directions, the i-th
\* (from 0) Left when bit i of bits is 0 and Right when it is 1, least-significant
\* bit first; 0b1101 with depth 5 yields Right, Left, Right, Right, Left.
C9_DirectionsFromBits ==
    exhausted =>
        /\ Len(collected) = depth
        /\ \A i \in 0..(depth - 1) :
               collected[i + 1] = IF (bits_arg \div Pow2(i)) % 2 = 1 THEN Right ELSE Left
        /\ (bits_arg = 13 /\ depth = 5) => collected = <<Right, Left, Right, Right, Left>>

\* the example of test_directions_from_bits has been collected
C9_Witness ==
    /\ exhausted
    /\ bits_arg = 13
    /\ depth = 5
    /\ Len(collected) = 5

====
